---- MODULE Spec2Model ----
(***************************************************************************)
(* Model of src/tasks/version.ts of amarislabs/kiara: the two exported     *)
(* entry points getManualVersion and getRecommendedVersion, the commit     *)
(* classifier analyzeBumpLevel, and the calls they make into semver.inc,   *)
(* conventional-recommended-bump's Bumper and the logger's select prompt.  *)
(*                                                                         *)
(* A version string is a sequence of lexical tokens, e.g. "1.2.3-beta.1"   *)
(* is <<"1", ".", "2", ".", "3", "-", "beta", ".", "1">>; semver.inc       *)
(* parses the tokens and formats its result back into a string.            *)
(***************************************************************************)
EXTENDS Integers, Sequences, FiniteSets, TLC

VARIABLES mode, current, releaseType, pc, commits, recommendation, prompt,
          promptEvent, outcome, trace

vars == <<mode, current, releaseType, pc, commits, recommendation, prompt,
          promptEvent, outcome, trace>>

\* ------------------------------------------------------------------ bounds
\* Largest MAJOR, MINOR or PATCH number of an input version.
MaxNum == 2
\* Largest number of commits the commit source returns.
MaxCommits == 3

\* ------------------------------------------------------------- JS values
Null == [tag |-> "null"]
Str(s) == [tag |-> "string", s |-> s]

\* `${value}` in a template literal
Display(v) == IF v = Null THEN "null" ELSE v.s

\* neverthrow results
Ok(v) == [kind |-> "ok", value |-> v]
Err(message) == [kind |-> "err", error |-> [name |-> "Error", message |-> message]]
Pending == [kind |-> "pending"]

\* ------------------------------------------------------------ version.ts
RELEASE_TYPES == <<"patch", "minor", "major">>

CHOICES == [default |-> RELEASE_TYPES]

\* options.releaseType when the caller supplies none (falsy at line 102)
Unset == ""

Truthy(s) == s # ""

\* ----------------------------------------------------------- semver.inc
Numerals == 0..(MaxNum + 1)

IsNumeric(tok) == \E n \in Numerals : ToString(n) = tok

NumOf(tok) == CHOOSE n \in Numerals : ToString(n) = tok

\* digits with a leading zero, which semver's numeric identifiers reject
IsLeadingZero(tok) == \E n \in Numerals : ("0" \o ToString(n)) = tok

IsSeparator(tok) == tok \in {".", "-", "+"}

\* a pre-release identifier: alphanumeric, or numeric without leading zero
IsPrereleaseId(tok) == ~IsSeparator(tok) /\ ~IsLeadingZero(tok)

\* a build identifier: any run of [0-9A-Za-z-]
IsBuildId(tok) == ~IsSeparator(tok)

\* id ("." id)*, the identifiers of the pre-release or of the build kind
IsDotted(seq, kind) ==
    /\ Len(seq) % 2 = 1
    /\ \A i \in 1..Len(seq) :
          IF i % 2 = 1
          THEN IF kind = "prerelease" THEN IsPrereleaseId(seq[i]) ELSE IsBuildId(seq[i])
          ELSE seq[i] = "."

Identifiers(seq) == [i \in 1..((Len(seq) + 1) \div 2) |-> seq[2 * i - 1]]

IndexOf(seq, tok) ==
    IF \E i \in 1..Len(seq) : seq[i] = tok
    THEN CHOOSE i \in 1..Len(seq) : seq[i] = tok /\ \A j \in 1..(i - 1) : seq[j] # tok
    ELSE 0

\* new SemVer(version): the FULL pattern ^v?MAJOR.MINOR.PATCH(-pre)?(+build)?$;
\* Null stands for the TypeError it throws on anything else.
semverParse(raw) ==
    LET s == IF Len(raw) > 0 /\ raw[1] = "v" THEN Tail(raw) ELSE raw
        plus == IndexOf(s, "+")
        body == IF plus = 0 THEN s ELSE SubSeq(s, 1, plus - 1)
        build == IF plus = 0 THEN <<>> ELSE SubSeq(s, plus + 1, Len(s))
        rest == SubSeq(body, 6, Len(body))
        pre == IF rest = <<>> THEN <<>> ELSE Tail(rest)
        ok == /\ Len(body) >= 5
              /\ IsNumeric(body[1]) /\ body[2] = "."
              /\ IsNumeric(body[3]) /\ body[4] = "."
              /\ IsNumeric(body[5])
              /\ rest # <<>> => (rest[1] = "-" /\ IsDotted(pre, "prerelease"))
              /\ plus # 0 => IsDotted(build, "build")
    IN  IF ok
        THEN [major |-> NumOf(body[1]), minor |-> NumOf(body[3]),
              patch |-> NumOf(body[5]),
              prerelease |-> IF pre = <<>> THEN <<>> ELSE Identifiers(pre),
              build |-> IF build = <<>> THEN <<>> ELSE Identifiers(build)]
        ELSE Null

RECURSIVE JoinDots(_)
JoinDots(ids) ==
    IF Len(ids) = 0 THEN ""
    ELSE IF Len(ids) = 1 THEN ids[1]
    ELSE ids[1] \o "." \o JoinDots(Tail(ids))

\* SemVer.format(): the build metadata is not part of .version
semverFormat(v) ==
    ToString(v.major) \o "." \o ToString(v.minor) \o "." \o ToString(v.patch)
        \o (IF Len(v.prerelease) > 0 THEN "-" \o JoinDots(v.prerelease) ELSE "")

\* SemVer.prototype.inc for the release types of RELEASE_TYPES
SemVerInc(v, release) ==
    CASE release = "major" ->
           [v EXCEPT !.major = IF v.minor # 0 \/ v.patch # 0 \/ Len(v.prerelease) = 0
                               THEN v.major + 1 ELSE v.major,
                     !.minor = 0, !.patch = 0, !.prerelease = <<>>]
      [] release = "minor" ->
           [v EXCEPT !.minor = IF v.patch # 0 \/ Len(v.prerelease) = 0
                               THEN v.minor + 1 ELSE v.minor,
                     !.patch = 0, !.prerelease = <<>>]
      [] release = "patch" ->
           [v EXCEPT !.patch = IF Len(v.prerelease) = 0
                               THEN v.patch + 1 ELSE v.patch,
                     !.prerelease = <<>>]

\* semver.inc(version, release): the incremented version string, or null
\* when the version does not parse or the release type is unknown.
semverInc(version, release) ==
    LET v == semverParse(version)
    IN  IF v = Null \/ release \notin {"major", "minor", "patch"}
        THEN Null
        ELSE Str(semverFormat(SemVerInc(v, release)))

\* ------------------------------------------------------ analyzeBumpLevel
\* the start of the loop: level 2, no breakings, no features
BumpStart == [level |-> 2, breakings |-> 0, features |-> 0]

\* one pass of the loop body with a feat commit counted whatever the level
BumpStepNoLevelGuard(acc, commit) ==
    IF Len(commit.notes) > 0
    THEN [acc EXCEPT !.breakings = acc.breakings + Len(commit.notes), !.level = 0]
    ELSE IF commit.type = "feat"
    THEN [acc EXCEPT !.features = acc.features + 1, !.level = 1]
    ELSE acc

\* one pass of the loop body with a commit's notes counted as one breaking
BumpStepOnePerCommit(acc, commit) ==
    IF Len(commit.notes) > 0
    THEN [acc EXCEPT !.breakings = acc.breakings + 1, !.level = 0]
    ELSE IF commit.type = "feat"
    THEN [acc EXCEPT !.features = acc.features + 1,
                     !.level = IF acc.level = 2 THEN 1 ELSE acc.level]
    ELSE acc

\* one pass of the loop body with every feat commit counted as a feature
BumpStepFeatAlways(acc, commit) ==
    LET noted == IF Len(commit.notes) > 0
                 THEN [acc EXCEPT !.breakings = acc.breakings + Len(commit.notes),
                                  !.level = 0]
                 ELSE acc
    IN  IF commit.type = "feat"
        THEN [noted EXCEPT !.features = noted.features + 1,
                           !.level = IF noted.level = 2 THEN 1 ELSE noted.level]
        ELSE noted

\* one pass of the loop body of analyzeBumpLevel
BumpStep(acc, commit) ==
    IF Len(commit.notes) > 0
    THEN [acc EXCEPT !.breakings = acc.breakings + Len(commit.notes), !.level = 0]
    ELSE IF commit.type = "feat"
    THEN [acc EXCEPT !.features = acc.features + 1,
                     !.level = IF acc.level = 2 THEN 1 ELSE acc.level]
    ELSE acc

RECURSIVE BumpLoop(_, _)
BumpLoop(acc, cs) ==
    IF cs = <<>> THEN acc ELSE BumpLoop(BumpStep(acc, Head(cs)), Tail(cs))

analyzeBumpLevel(cs) ==
    LET r == BumpLoop(BumpStart, cs)
    IN  [level |-> r.level,
         reason |-> IF r.breakings = 1
                    THEN "There is " \o ToString(r.breakings) \o " BREAKING CHANGE and "
                             \o ToString(r.features) \o " features"
                    ELSE "There are " \o ToString(r.breakings) \o " BREAKING CHANGES and "
                             \o ToString(r.features) \o " features"]

\* Bumper.bump(whatBump): the callback's result with releaseType added from
\* its level (0 major, 1 minor, 2 patch)
VERSIONS == <<"major", "minor", "patch">>

BumperBump(cs) ==
    LET result == analyzeBumpLevel(cs)
    IN  [level |-> result.level, reason |-> result.reason,
         releaseType |-> VERSIONS[result.level + 1]]

\* ------------------------------------------------------ version calculator
getIncrementalBumpsReversed(currentVersion) ==
    [i \in 1..Len(CHOICES.default) |->
        LET increment == CHOICES.default[Len(CHOICES.default) + 1 - i]
        IN  [label |-> increment \o " (" \o Display(semverInc(currentVersion, increment)) \o ")",
             value |-> semverInc(currentVersion, increment),
             hint |-> semverInc(currentVersion, increment)]]

getIncrementalBumps(currentVersion) ==
    [i \in 1..Len(CHOICES.default) |->
        LET increment == CHOICES.default[i]
        IN  [label |-> increment \o " (" \o Display(semverInc(currentVersion, increment)) \o ")",
             value |-> semverInc(currentVersion, increment),
             hint |-> semverInc(currentVersion, increment)]]

\* the version calculator always incrementing the patch number
getVersionFromReleaseTypePatchOnly(currentVersion, type) ==
    Ok(semverInc(currentVersion, "patch"))

\* Promise.resolve(semver.inc(...)) never rejects, and .map passes null through
getVersionFromReleaseType(currentVersion, type) ==
    Ok(semverInc(currentVersion, type))

getVersion(currentVersion, recommended) ==
    Ok(semverInc(currentVersion, recommended.releaseType))

\* ------------------------------------------------------------------ inputs
MainVersions ==
    {<<ToString(a), ".", ToString(b), ".", ToString(c)>> : a, b, c \in 0..MaxNum}

\* context.version.current: every MAJOR.MINOR.PATCH, each also with the
\* pre-release suffix -beta.1, some with build metadata or a leading v, and
\* strings that are no semantic version
CurrentVersions ==
    MainVersions
    \cup {m \o <<"-", "beta", ".", "1">> : m \in MainVersions}
    \cup {<<"1", ".", "0", ".", "0", "+", "build">>,
          <<"1", ".", "0", ".", "1", "-", "rc", "+", "build", ".", "01">>,
          <<"v", "1", ".", "0", ".", "0">>}
    \cup {<<"not", "-", "a", "-", "version">>,
          <<"1", ".", "2">>,
          <<"01", ".", "0", ".", "0">>,
          <<"1", ".", "0", ".", "0", "-", "01">>,
          <<>>}

BreakingNote == [title |-> "BREAKING CHANGE", text |-> "x"]

Commits ==
    [type : {"feat", "fix"},
     notes : {<<>>, <<BreakingNote>>, <<BreakingNote, BreakingNote>>}]

CommitSeqs == UNION {[1..n -> Commits] : n \in 0..MaxCommits}

\* what `${error}` prints for a rejected Bumper promise
FetchErrors == {"Error: not a git repository"}

\* what the select prompt rejects with: the error consola throws on cancel
\* (cancel: "reject"), another Error, or a value that is no Error
PromptCancelled ==
    [isError |-> TRUE, name |-> "ConsolaPromptCancelledError", message |-> "Prompt cancelled."]

PromptFailures ==
    {[isError |-> TRUE, name |-> "Error", message |-> "stdin closed"],
     [isError |-> FALSE, name |-> "", message |-> ""]}

NoPrompt == [shown |-> FALSE]

NoRecommendation == [level |-> -1]

\* ------------------------------------------------------------------- state
TypeOK ==
    /\ mode \in {"manual", "recommended"}
    /\ current \in CurrentVersions
    /\ releaseType \in {Unset, "patch", "minor", "major"}
    /\ pc \in {"start", "prompt", "fetched", "classified", "done"}
    /\ commits \in CommitSeqs
    /\ promptEvent \in {"none", "selected", "cancelled", "failed"}
    /\ outcome.kind \in {"pending", "ok", "err"}

\* getRecommendedVersion never reads options.releaseType, which is left unset
\* in that mode.
Init ==
    /\ mode \in {"manual", "recommended"}
    /\ current \in CurrentVersions
    /\ releaseType \in {Unset, "patch", "minor", "major"}
    /\ mode = "recommended" => releaseType = Unset
    /\ pc = "start"
    /\ commits = <<>>
    /\ recommendation = NoRecommendation
    /\ prompt = NoPrompt
    /\ promptEvent = "none"
    /\ outcome = Pending
    /\ trace = <<>>

\* ------------------------------------------------------------ manual mode
\* promptManualVersion up to the pending logger.prompt
promptManualVersion ==
    LET versions == getIncrementalBumps(current)
    IN  /\ prompt' = [shown |-> TRUE,
                      message |-> "Recommended version bump",
                      type |-> "select",
                      options |-> versions,
                      initial |-> versions[1].value,
                      cancel |-> "reject"]
        /\ pc' = "prompt"
        /\ trace' = Append(trace, "prompt")
        /\ UNCHANGED <<outcome, promptEvent>>

\* getManualVersion prompting whether or not a release type is supplied
getManualVersionAlwaysPrompt ==
    /\ pc = "start"
    /\ mode = "manual"
    /\ promptManualVersion
    /\ UNCHANGED <<mode, current, releaseType, commits, recommendation>>

getManualVersion ==
    /\ pc = "start"
    /\ mode = "manual"
    /\ IF Truthy(releaseType)
       THEN /\ outcome' = getVersionFromReleaseType(current, releaseType)
            /\ trace' = Append(trace, "semver.inc")
            /\ pc' = "done"
            /\ UNCHANGED <<prompt, promptEvent>>
       ELSE promptManualVersion
    /\ UNCHANGED <<mode, current, releaseType, commits, recommendation>>

\* the operator selects one of the options: the promise resolves to its value
PromptSelect ==
    /\ pc = "prompt"
    /\ \E i \in 1..Len(prompt.options) :
          outcome' = Ok(prompt.options[i].value)
    /\ promptEvent' = "selected"
    /\ pc' = "done"
    /\ UNCHANGED <<mode, current, releaseType, commits, recommendation, prompt, trace>>

\* the error mapper of promptManualVersion
PromptError(rejection) ==
    Err(IF rejection.isError THEN rejection.message ELSE "Failed to select version bump")

\* the operator cancels: the promise rejects
PromptCancel ==
    /\ pc = "prompt"
    /\ outcome' = PromptError(PromptCancelled)
    /\ promptEvent' = "cancelled"
    /\ pc' = "done"
    /\ UNCHANGED <<mode, current, releaseType, commits, recommendation, prompt, trace>>

\* the prompt itself fails: the promise rejects
PromptFail ==
    /\ pc = "prompt"
    /\ \E rejection \in PromptFailures : outcome' = PromptError(rejection)
    /\ promptEvent' = "failed"
    /\ pc' = "done"
    /\ UNCHANGED <<mode, current, releaseType, commits, recommendation, prompt, trace>>

\* --------------------------------------------------------- automatic mode
\* new Bumper().commits(...): the commit source yields the commits
CommitsFetched ==
    /\ pc = "start"
    /\ mode = "recommended"
    /\ commits' \in CommitSeqs
    /\ trace' = Append(trace, "fetch")
    /\ pc' = "fetched"
    /\ UNCHANGED <<mode, current, releaseType, recommendation, prompt, promptEvent, outcome>>

\* a failed fetch that goes on with no commits
CommitsFetchFailedFallback ==
    /\ pc = "start"
    /\ mode = "recommended"
    /\ commits' = <<>>
    /\ trace' = Append(trace, "fetch failed")
    /\ pc' = "fetched"
    /\ UNCHANGED <<mode, current, releaseType, recommendation, prompt, promptEvent, outcome>>

\* the commit source fails: the Bumper promise rejects
CommitsFetchFailed ==
    /\ pc = "start"
    /\ mode = "recommended"
    /\ \E error \in FetchErrors :
          outcome' = Err("Failed to get conventional bump: " \o error)
    /\ trace' = Append(trace, "fetch failed")
    /\ pc' = "done"
    /\ UNCHANGED <<mode, current, releaseType, commits, recommendation, prompt, promptEvent>>

\* .bump(whatBump): the callback classifies the fetched commits
WhatBump ==
    /\ pc = "fetched"
    /\ recommendation' = BumperBump(commits)
    /\ trace' = Append(trace, "classify")
    /\ pc' = "classified"
    /\ UNCHANGED <<mode, current, releaseType, commits, prompt, promptEvent, outcome>>

\* the rest of getRecommendedVersion: the logging taps, then getVersion
ResolveRecommended ==
    /\ pc = "classified"
    /\ outcome' = getVersion(current, recommendation)
    /\ trace' = Append(trace, "semver.inc")
    /\ pc' = "done"
    /\ UNCHANGED <<mode, current, releaseType, commits, recommendation, prompt, promptEvent>>

Next ==
    \/ getManualVersion
    \/ PromptSelect
    \/ PromptCancel
    \/ PromptFail
    \/ CommitsFetched
    \/ CommitsFetchFailed
    \/ WhatBump
    \/ ResolveRecommended

Spec == Init /\ [][Next]_vars

\* ------------------------------------------------------------------ claims
HasNote(cs) == \E i \in 1..Len(cs) : Len(cs[i].notes) >= 1

HasFeat(cs) == \E i \in 1..Len(cs) : cs[i].type = "feat"

RECURSIVE NoteCount(_)
NoteCount(cs) ==
    IF cs = <<>> THEN 0 ELSE Len(Head(cs).notes) + NoteCount(Tail(cs))

FeatureCount(cs) ==
    Cardinality({i \in 1..Len(cs) : cs[i].notes = <<>> /\ cs[i].type = "feat"})

Classified == mode = "recommended" /\ pc \in {"classified", "done"} /\ "classify" \in {trace[i] : i \in 1..Len(trace)}

Events == {trace[i] : i \in 1..Len(trace)}

\* C1: the level analyzeBumpLevel returns is 0 (Major) exactly when some
\* commit has a note, 1 (Minor) exactly when no commit has a note and some
\* commit has type feat, and 2 (Patch) otherwise, the empty sequence included.
C1_LevelBySeverity ==
    Classified =>
        /\ recommendation.level = 0 <=> HasNote(commits)
        /\ recommendation.level = 1 <=> (~HasNote(commits) /\ HasFeat(commits))
        /\ recommendation.level = 2 <=> (~HasNote(commits) /\ ~HasFeat(commits))
        /\ commits = <<>> => recommendation.level = 2

\* a breaking commit followed by a plain feat commit has been classified
C1_Witness ==
    /\ Classified
    /\ Len(commits) >= 2
    /\ Len(commits[1].notes) >= 1
    /\ commits[2].type = "feat" /\ commits[2].notes = <<>>
    /\ recommendation.level = 0

\* C2: with a current version that is no semantic version, the explicit-type
\* path and the automatic path end in an error outcome, never in a success.
C2_InvalidCurrentFails ==
    (/\ pc = "done"
     /\ semverParse(current) = Null
     /\ mode = "recommended" \/ Truthy(releaseType))
        => outcome.kind = "err"

\* C3: when the operator cancels the selection prompt the run ends in a
\* cancellation outcome that is no error outcome, and no version is produced.
C3_CancelIsNotError ==
    promptEvent = "cancelled" => outcome.kind \notin {"err", "ok"}

C4Commits ==
    <<[type |-> "fix", notes |-> <<>>],
      [type |-> "feat", notes |-> <<>>],
      [type |-> "feat", notes |-> <<BreakingNote>>]>>

C4Case ==
    /\ mode = "recommended"
    /\ pc = "done"
    /\ commits = C4Commits
    /\ current = <<"1", ".", "0", ".", "0">>
    /\ outcome.kind = "ok"

\* C4 as stated: commits [fix, feat, feat with one note] and current 1.0.0
\* give level 0, the reason with 2 features, and version 2.0.0.
C4_Original ==
    C4Case =>
        /\ recommendation.level = 0
        /\ recommendation.reason = "There is 1 BREAKING CHANGE and 2 features"
        /\ outcome.value = Str("2.0.0")

\* C4 as amended: commits [fix, feat, feat with one note] and current 1.0.0
\* give level 0, the reason "There is 1 BREAKING CHANGE and 1 features" (the
\* feat commit that carries the note is counted as breaking, not as a
\* feature), and version 2.0.0.
C4_Amended ==
    C4Case =>
        /\ recommendation.level = 0
        /\ recommendation.reason = "There is 1 BREAKING CHANGE and 1 features"
        /\ recommendation.releaseType = "major"
        /\ outcome.value = Str("2.0.0")

C4_Witness == C4Case /\ outcome.value # Null

\* C5: in a run of getManualVersion with an explicit release type the version
\* is computed from that type, the prompt is never shown, the commit source
\* is never queried and the classifier never runs.
C5_ExplicitTypeDirect ==
    (mode = "manual" /\ Truthy(releaseType)) =>
        /\ ~prompt.shown
        /\ pc \in {"start", "done"}
        /\ Events \subseteq {"semver.inc"}
        /\ commits = <<>>
        /\ recommendation = NoRecommendation
        /\ promptEvent = "none"
        /\ pc = "done" =>
              /\ outcome = Ok(semverInc(current, releaseType))
              /\ trace = <<"semver.inc">>

C5_Witness ==
    /\ mode = "manual"
    /\ releaseType = "minor"
    /\ pc = "done"
    /\ outcome.kind = "ok"
    /\ outcome.value # Null

\* C6: in automatic mode the steps run in the order fetch, classify, compute;
\* classification never starts before the fetch has completed, and a failed
\* fetch ends the run in an error with no classification, no version
\* computation and no version.
C6_FetchBeforeClassify ==
    mode = "recommended" =>
        /\ \/ trace = <<"fetch failed">>
           \/ \E n \in 0..3 : trace = SubSeq(<<"fetch", "classify", "semver.inc">>, 1, n)
        /\ "fetch failed" \in Events =>
              /\ pc = "done"
              /\ outcome.kind = "err"
              /\ recommendation = NoRecommendation
              /\ commits = <<>>
        /\ recommendation # NoRecommendation => "fetch" \in Events
        /\ outcome.kind = "ok" => trace = <<"fetch", "classify", "semver.inc">>
        /\ pc = "done" => outcome.kind \in {"ok", "err"}

C6_Witness ==
    /\ mode = "recommended"
    /\ pc = "done"
    /\ trace = <<"fetch failed">>
    /\ outcome.kind = "err"

\* the version calculator has run on a release type and a current version
\* that parses
Calculated ==
    /\ pc = "done"
    /\ outcome.kind = "ok"
    /\ mode = "manual" => Truthy(releaseType)
    /\ semverParse(current) # Null

UsedType == IF mode = "manual" THEN releaseType ELSE recommendation.releaseType

Dotted(a, b, c) == Str(ToString(a) \o "." \o ToString(b) \o "." \o ToString(c))

\* C7 as stated: for every valid current version, with or without a suffix,
\* major gives (MAJOR+1).0.0, minor MAJOR.(MINOR+1).0 and patch
\* MAJOR.MINOR.(PATCH+1), without suffix.
C7_Original ==
    Calculated =>
        LET v == semverParse(current)
        IN  /\ UsedType = "major" => outcome.value = Dotted(v.major + 1, 0, 0)
            /\ UsedType = "minor" => outcome.value = Dotted(v.major, v.minor + 1, 0)
            /\ UsedType = "patch" => outcome.value = Dotted(v.major, v.minor, v.patch + 1)

\* C7 as amended: the result never has a suffix; for a current version
\* without a pre-release suffix (build metadata or not) major gives
\* (MAJOR+1).0.0, minor MAJOR.(MINOR+1).0 and patch MAJOR.MINOR.(PATCH+1);
\* for a current version with a pre-release suffix patch gives
\* MAJOR.MINOR.PATCH, minor gives MAJOR.MINOR.0 when PATCH is 0 and
\* MAJOR.(MINOR+1).0 otherwise, and major gives MAJOR.0.0 when MINOR and PATCH
\* are 0 and (MAJOR+1).0.0 otherwise.
C7_Amended ==
    Calculated =>
        LET v == semverParse(current)
            pre == Len(v.prerelease) > 0
        IN  /\ UsedType = "major" =>
                  outcome.value = IF pre /\ v.minor = 0 /\ v.patch = 0
                                  THEN Dotted(v.major, 0, 0)
                                  ELSE Dotted(v.major + 1, 0, 0)
            /\ UsedType = "minor" =>
                  outcome.value = IF pre /\ v.patch = 0
                                  THEN Dotted(v.major, v.minor, 0)
                                  ELSE Dotted(v.major, v.minor + 1, 0)
            /\ UsedType = "patch" =>
                  outcome.value = IF pre
                                  THEN Dotted(v.major, v.minor, v.patch)
                                  ELSE Dotted(v.major, v.minor, v.patch + 1)
            /\ UsedType \in {"major", "minor", "patch"}

C7_Witness ==
    /\ Calculated
    /\ mode = "manual"
    /\ current = <<"1", ".", "2", ".", "0", "-", "beta", ".", "1">>
    /\ releaseType = "minor"
    /\ outcome.value = Str("1.2.0")

\* C8: for a valid current version the prompt holds three options, the patch,
\* minor and major increments in that order, each valued with the computed
\* version and labelled "{type} ({version})", and its initial value is the
\* patch option's; for 2.0.0 the values are 2.0.1, 2.1.0, 3.0.0.
C8_CandidateList ==
    (prompt.shown /\ semverParse(current) # Null) =>
        /\ Len(prompt.options) = 3
        /\ \A i \in 1..3 :
              LET type == <<"patch", "minor", "major">>[i]
                  o == prompt.options[i]
              IN  /\ o.value = semverInc(current, type)
                  /\ o.value # Null
                  /\ o.label = type \o " (" \o o.value.s \o ")"
        /\ prompt.initial = prompt.options[1].value
        /\ current = <<"2", ".", "0", ".", "0">> =>
              /\ [i \in 1..3 |-> prompt.options[i].value]
                    = <<Str("2.0.1"), Str("2.1.0"), Str("3.0.0")>>
              /\ prompt.options[1].label = "patch (2.0.1)"
              /\ prompt.initial = Str("2.0.1")

C8_Witness ==
    /\ prompt.shown
    /\ current = <<"2", ".", "0", ".", "0">>
    /\ prompt.options[3].value = Str("3.0.0")

\* C9: with B the notes summed over all commits and F the commits with no
\* note and type feat, the reason is "There is 1 BREAKING CHANGE and F
\* features" when B = 1 and "There are B BREAKING CHANGES and F features"
\* otherwise; the empty sequence gives 0 and 0.
C9_Reason ==
    Classified =>
        LET B == NoteCount(commits)
            F == FeatureCount(commits)
        IN  /\ B = 1 => recommendation.reason =
                  "There is 1 BREAKING CHANGE and " \o ToString(F) \o " features"
            /\ B # 1 => recommendation.reason =
                  "There are " \o ToString(B) \o " BREAKING CHANGES and "
                      \o ToString(F) \o " features"
            /\ commits = <<>> => recommendation.reason =
                  "There are 0 BREAKING CHANGES and 0 features"

\* one commit with two notes and one plain feat commit have been classified
C9_Witness ==
    /\ Classified
    /\ \E i \in 1..Len(commits) : Len(commits[i].notes) = 2
    /\ recommendation.reason = "There are 2 BREAKING CHANGES and 1 features"

\* the main version of a is above that of b, or equal with only b pre-release
Precedes(b, a) ==
    \/ a.major > b.major
    \/ a.major = b.major /\ a.minor > b.minor
    \/ a.major = b.major /\ a.minor = b.minor /\ a.patch > b.patch
    \/ /\ a.major = b.major /\ a.minor = b.minor /\ a.patch = b.patch
       /\ Len(b.prerelease) > 0

\* C10: every run ends in exactly one outcome, and a success carries a valid
\* semantic version strictly greater than the current version.
C10_SuccessIsGreaterVersion ==
    pc = "done" =>
        /\ outcome.kind \in {"ok", "err"}
        /\ outcome.kind = "ok" =>
              /\ outcome.value # Null
              /\ semverParse(current) # Null
              /\ \E a, b, c \in 0..(MaxNum + 1) :
                    /\ outcome.value = Dotted(a, b, c)
                    /\ Precedes(semverParse(current),
                                [major |-> a, minor |-> b, patch |-> c,
                                 prerelease |-> <<>>])

====
